---- MODULE Spec2Model ----
(***************************************************************************)
(* Model of scripts/collect_metrics.py: one run of main() - create the     *)
(* output directory, read the project from the environment, compute the    *)
(* query window, fetch the CPU-utilization series, turn every series into  *)
(* a frame, plot every frame and save the chart.                           *)
(***************************************************************************)
EXTENDS Integers, Sequences, FiniteSets, TLC

VARIABLES
    pc,        \* position of main(): the statement it executes next
    args,      \* argparse namespace: out_dir, start, end
    env,       \* os.environ
    fs,        \* what sits at args.out_dir: "absent", "dir" or "file"
    project,   \* main's local `project`
    now,       \* main's local `now` (naive UTC wall clock, seconds)
    interval,  \* main's local `interval`
    queries,   \* requests received by list_time_series, in order
    results,   \* the backend's answer to the query: a series list or an error
    series,    \* main's local `series`
    i,         \* index of the next element of the running for loop
    df,        \* main's local `df`
    frames,    \* main's local `frames`
    lines,     \* lines drawn on the current figure
    written,   \* files written by this run
    error      \* the exception that ended the run, None while there is none

vars == <<pc, args, env, fs, project, now, interval, queries, results,
          series, i, df, frames, lines, written, error>>

\* ---------------------------------------------------------------- bounds
\* longest series list the backend answers with
MaxSeries == 2
\* most points in one backend answer (and in one series)
MaxPoints == 2

\* ------------------------------------------------------- Python's None
None == <<>>
Some(x) == <<x>>

\* ------------------------------------------------------------- inputs
Timestamps == {1, 2}
Projects == {"proj1", "proj2"}
BackendErrors == {"PermissionDenied", "InvalidArgument"}
Nows == {7200}
UtcOffsets == {0, 3600}
ArgSets ==
    { [out_dir |-> "results/metrics", start |-> None, end |-> None],
      [out_dir |-> "results/metrics", start |-> Some(100), end |-> Some(200)] }
Environs == {<<>>} \cup {[GOOGLE_CLOUD_PROJECT |-> p] : p \in Projects}
LabelSets == {<<>>, [instance_name |-> "a"], [instance_name |-> "value"]}

Point(t, d, n) ==
    [interval |-> [end_time |-> t],
     value |-> [double_value |-> d, int64_value |-> n]]

\* points as the pipeline sees them: a float sample or an integer sample
PipelinePoints ==
    {Point(t, 10, 0) : t \in Timestamps} \cup {Point(t, 0, 5) : t \in Timestamps}

\* every combination of zero and non-zero value fields
AllPoints == {Point(t, d, n) : t \in Timestamps, d \in {0, 10}, n \in {0, 5}}

SeqsUpTo(S, n) == UNION {[1..k -> S] : k \in 0..n}

TimeSeries(l, ps) == [metric |-> [labels |-> l], points |-> ps]

\* the series lists of at most n series holding at most k points in all
RECURSIVE Responses(_, _)
Responses(n, k) ==
    IF n = 0 THEN {<<>>}
    ELSE {<<>>} \cup
         UNION { { <<TimeSeries(l, ps)>> \o r : r \in Responses(n - 1, k - Len(ps)) }
                 : l \in LabelSets, ps \in SeqsUpTo(PipelinePoints, k) }

\* ------------------------------------------------------ timeseries_to_df
\* the integer field tested first
point_value_int_first(point) ==
    IF point.value.int64_value # 0 THEN Some(point.value.int64_value)
    ELSE IF point.value.double_value # 0 THEN Some(point.value.double_value)
    ELSE None

point_value(point) ==
    IF point.value.double_value # 0 THEN Some(point.value.double_value)
    ELSE IF point.value.int64_value # 0 THEN Some(point.value.int64_value)
    ELSE None

RECURSIVE rows_of(_)
rows_of(points) ==
    IF points = <<>> THEN <<>>
    ELSE <<[time |-> Head(points).interval.end_time,
            value |-> point_value(Head(points))]>> \o rows_of(Tail(points))

\* pd.DataFrame(rows): the columns are the keys of the row dicts, so an empty
\* row list gives a frame without columns
DataFrame(rows) ==
    [columns |-> IF rows = <<>> THEN <<>> ELSE <<"time", "value">>,
     rows |-> rows]

timeseries_to_df(s) == DataFrame(rows_of(s.points))

\* ----------------------------------------------------------- fetch_metric
cpu_filter == "metric.type=\"compute.googleapis.com/instance/cpu/utilization\""

request(proj, filter_, intv) ==
    [name |-> "projects/" \o proj, filter |-> filter_, interval |-> intv,
     view |-> "FULL"]

\* the answer's elements taken last first
RECURSIVE list_reversed(_)
list_reversed(rs) ==
    IF rs = <<>> THEN <<>> ELSE Append(list_reversed(Tail(rs)), Head(rs))

RECURSIVE list(_)
list(rs) == IF rs = <<>> THEN <<>> ELSE <<Head(rs)>> \o list(Tail(rs))

\* ------------------------------------------------------------------ main
Range(s) == {s[k] : k \in DOMAIN s}

\* the label looked up without a default: the column keeps its name
column_key_no_default(s) ==
    IF "instance_name" \in DOMAIN s.metric.labels
    THEN s.metric.labels["instance_name"]
    ELSE "value"

column_key(s) ==
    IF "instance_name" \in DOMAIN s.metric.labels
    THEN s.metric.labels["instance_name"]
    ELSE "instance"

\* df.set_index(col): col becomes the index, the other columns stay
set_index(d, col) ==
    [index |-> [k \in DOMAIN d.rows |-> d.rows[k][col]],
     columns |-> SelectSeq(d.columns, LAMBDA c : c # col),
     data |-> [k \in DOMAIN d.rows |-> d.rows[k].value]]

\* f.rename(columns={old: new})
rename(f, old, new) ==
    [f EXCEPT !.columns =
        [k \in DOMAIN f.columns |-> IF f.columns[k] = old THEN new ELSE f.columns[k]]]

LookbackMinutes == 60

\* datetime.timestamp() of a naive datetime reads it as local time
timestamp(naive, utcoffset) == naive - utcoffset

chart_path == "results/metrics/cpu_util.png"

Abort(e) ==
    /\ pc' = "aborted"
    /\ error' = Some(e)

Init ==
    /\ pc = "makedirs"
    /\ args \in ArgSets
    /\ env \in Environs
    /\ fs \in {"absent", "dir", "file"}
    /\ project = None
    /\ now = None
    /\ interval = None
    /\ queries = <<>>
    /\ results = None
    /\ series = <<>>
    /\ i = 1
    /\ df = None
    /\ frames = <<>>
    /\ lines = <<>>
    /\ written = {}
    /\ error = None

\* directory creation whose failure is ignored
makedirs_unchecked ==
    /\ pc = "makedirs"
    /\ fs' = IF fs = "file" THEN "file" ELSE "dir"
    /\ pc' = "client"
    /\ UNCHANGED <<args, env, project, now, interval, queries, results, series,
                   i, df, frames, lines, written, error>>

\* line 37: os.makedirs(args.out_dir, exist_ok=True)
makedirs ==
    /\ pc = "makedirs"
    /\ IF fs = "file"
       THEN Abort("FileExistsError") /\ UNCHANGED fs
       ELSE fs' = "dir" /\ pc' = "client" /\ UNCHANGED error
    /\ UNCHANGED <<args, env, project, now, interval, queries, results, series,
                   i, df, frames, lines, written>>

\* lines 39-40: the client, then os.environ['GOOGLE_CLOUD_PROJECT']
read_project ==
    /\ pc = "client"
    /\ IF "GOOGLE_CLOUD_PROJECT" \in DOMAIN env
       THEN /\ project' = Some("projects/" \o env["GOOGLE_CLOUD_PROJECT"])
            /\ pc' = "interval"
            /\ UNCHANGED error
       ELSE Abort("KeyError: GOOGLE_CLOUD_PROJECT") /\ UNCHANGED project
    /\ UNCHANGED <<args, env, fs, now, interval, queries, results, series,
                   i, df, frames, lines, written>>

\* lines 43-48: the window is the hour before utcnow(); args.start and
\* args.end are not read
compute_interval ==
    /\ pc = "interval"
    /\ \E n \in Nows, off \in UtcOffsets :
          /\ now' = Some(n)
          /\ interval' =
                [end_time |-> [seconds |-> timestamp(n, off)],
                 start_time |->
                    [seconds |-> timestamp(n - 60 * LookbackMinutes, off)]]
    /\ pc' = "fetch"
    /\ UNCHANGED <<args, env, fs, project, queries, results, series,
                   i, df, frames, lines, written, error>>

\* a fetch that turns a backend error into an empty series list
fetch_metric_swallow ==
    /\ pc = "fetch"
    /\ queries' = Append(queries,
                    request(env["GOOGLE_CLOUD_PROJECT"], cpu_filter, interval))
    /\ \/ \E r \in Responses(MaxSeries, MaxPoints) :
             /\ results' = [ok |-> TRUE, series |-> r]
             /\ series' = list(r)
       \/ \E e \in BackendErrors :
             /\ results' = [ok |-> FALSE, error |-> e]
             /\ series' = <<>>
    /\ pc' = "reshape"
    /\ UNCHANGED <<args, env, fs, project, now, interval,
                   i, df, frames, lines, written, error>>

\* line 53 and lines 20-29: one list_time_series call, its answer made a list
fetch_metric ==
    /\ pc = "fetch"
    /\ queries' = Append(queries,
                    request(env["GOOGLE_CLOUD_PROJECT"], cpu_filter, interval))
    /\ \/ \E r \in Responses(MaxSeries, MaxPoints) :
             /\ results' = [ok |-> TRUE, series |-> r]
             /\ series' = list(r)
             /\ pc' = "reshape"
             /\ UNCHANGED error
       \/ \E e \in BackendErrors :
             /\ results' = [ok |-> FALSE, error |-> e]
             /\ Abort(e)
             /\ UNCHANGED series
    /\ UNCHANGED <<args, env, fs, project, now, interval,
                   i, df, frames, lines, written>>

\* line 58: df = timeseries_to_df(s)
call_timeseries_to_df ==
    /\ pc = "reshape"
    /\ i <= Len(series)
    /\ df' = timeseries_to_df(series[i])
    /\ pc' = "append"
    /\ UNCHANGED <<args, env, fs, project, now, interval, queries, results,
                   series, i, frames, lines, written, error>>

\* line 59: frames.append(df.set_index('time').rename(...))
append_frame ==
    /\ pc = "append"
    /\ IF "time" \in Range(df.columns)
       THEN /\ frames' = Append(frames,
                    rename(set_index(df, "time"), "value", column_key(series[i])))
            /\ i' = i + 1
            /\ pc' = "reshape"
            /\ UNCHANGED error
       ELSE Abort("KeyError: time") /\ UNCHANGED <<frames, i>>
    /\ UNCHANGED <<args, env, fs, project, now, interval, queries, results,
                   series, df, lines, written>>

\* line 63: plt.figure(), once the loop over series is exhausted
figure ==
    /\ pc = "reshape"
    /\ i > Len(series)
    /\ lines' = <<>>
    /\ i' = 1
    /\ pc' = "plot"
    /\ UNCHANGED <<args, env, fs, project, now, interval, queries, results,
                   series, df, frames, written, error>>

\* lines 64-65: f['value'].plot()
plot_frame ==
    /\ pc = "plot"
    /\ i <= Len(frames)
    /\ IF "value" \in Range(frames[i].columns)
       THEN /\ lines' = Append(lines, [x |-> frames[i].index, y |-> frames[i].data])
            /\ i' = i + 1
            /\ UNCHANGED <<pc, error>>
       ELSE Abort("KeyError: value") /\ UNCHANGED <<lines, i>>
    /\ UNCHANGED <<args, env, fs, project, now, interval, queries, results,
                   series, df, frames, written>>

\* lines 66-69: title, labels, plt.savefig(<out-dir>/cpu_util.png)
savefig ==
    /\ pc = "plot"
    /\ i > Len(frames)
    /\ written' = written \cup {chart_path}
    /\ pc' = "done"
    /\ UNCHANGED <<args, env, fs, project, now, interval, queries, results,
                   series, i, df, frames, lines, error>>

Next ==
    \/ makedirs
    \/ read_project
    \/ compute_interval
    \/ fetch_metric
    \/ call_timeseries_to_df
    \/ append_frame
    \/ figure
    \/ plot_frame
    \/ savefig

Spec == Init /\ [][Next]_vars

\* ------------------------------------------- timeseries_to_df on its own
\* main() right after the fetch answered one series, whose points take every
\* combination of zero and non-zero value fields
InitDf ==
    /\ pc = "reshape"
    /\ args = [out_dir |-> "results/metrics", start |-> None, end |-> None]
    /\ env = [GOOGLE_CLOUD_PROJECT |-> "proj1"]
    /\ fs = "dir"
    /\ project = Some("projects/proj1")
    /\ now = Some(7200)
    /\ interval = [end_time |-> [seconds |-> 7200],
                   start_time |-> [seconds |-> 7200 - 60 * LookbackMinutes]]
    /\ queries = <<request("proj1", cpu_filter, interval)>>
    /\ \E l \in LabelSets, ps \in SeqsUpTo(AllPoints, MaxPoints) :
          /\ results = [ok |-> TRUE, series |-> <<TimeSeries(l, ps)>>]
          /\ series = <<TimeSeries(l, ps)>>
    /\ i = 1
    /\ df = None
    /\ frames = <<>>
    /\ lines = <<>>
    /\ written = {}
    /\ error = None

NextDf == call_timeseries_to_df

SpecDf == InitDf /\ [][NextDf]_vars

\* ------------------------------------------------------------- properties
Failed(e) == error = Some(e)
ProjectSet == "GOOGLE_CLOUD_PROJECT" \in DOMAIN env
FloatOnly(p) == p.value.double_value # 0 /\ p.value.int64_value = 0
IntOnly(p) == p.value.double_value = 0 /\ p.value.int64_value # 0
BothSet(p) == p.value.double_value # 0 /\ p.value.int64_value # 0
BothZero(p) == p.value.double_value = 0 /\ p.value.int64_value = 0
Labelled(s) == "instance_name" \in DOMAIN s.metric.labels
PointTimes(ss) ==
    UNION {{ss[k].points[j].interval.end_time : j \in DOMAIN ss[k].points}
           : k \in DOMAIN ss}

\* C1: a run issues at most one list_time_series query; the query names
\* "projects/<project>", carries the filter and the interval unchanged and asks
\* for the FULL view; the list handed to main holds the backend's series, the
\* same elements in the same order.
C1_FetchOneQueryListInOrder ==
    /\ Len(queries) <= 1
    /\ pc \in {"reshape", "append", "plot", "done"} => Len(queries) = 1
    /\ queries # <<>> =>
          /\ queries[1].name = "projects/" \o env["GOOGLE_CLOUD_PROJECT"]
          /\ queries[1].filter = cpu_filter
          /\ queries[1].interval = interval
          /\ queries[1].view = "FULL"
    /\ (results # None /\ results.ok) =>
          /\ Len(series) = Len(results.series)
          /\ \A k \in DOMAIN series : series[k] = results.series[k]

C1_Witness ==
    /\ pc = "reshape"
    /\ Len(queries) = 1
    /\ queries[1].name = "projects/proj2"
    /\ Len(series) = 2
    /\ series[1] # series[2]
    /\ series[1] = results.series[1]

C3_ZeroIsPresent ==
    pc = "append" =>
       \A k \in DOMAIN df.rows :
          BothZero(series[i].points[k]) => df.rows[k].value = Some(0)

\* C4: once every series is reshaped, no two columns carry the same display
\* key, and the row timestamps are exactly the timestamps of the input points.
C4_OneColumnPerKey ==
    pc = "plot" =>
       /\ \A j, k \in DOMAIN frames :
             j # k => Range(frames[j].columns) \cap Range(frames[k].columns) = {}
       /\ UNION {Range(frames[k].index) : k \in DOMAIN frames} = PointTimes(series)

\* C5: the column of every frame built is named by the series' instance_name
\* label when the series has one, and "instance" when it has none.
C5_ColumnNamedByLabel ==
    \A k \in DOMAIN frames :
       frames[k].columns =
          <<IF Labelled(series[k]) THEN series[k].metric.labels["instance_name"]
            ELSE "instance">>

C5_Witness ==
    /\ Len(frames) = 2
    /\ ~Labelled(series[1])
    /\ frames[1].columns = <<"instance">>
    /\ Labelled(series[2])
    /\ frames[2].columns = <<"a">>

\* C6: once every series is reshaped, the columns stand in the order the fetch
\* returned the series, and the rows of every frame stand in ascending
\* timestamp order.
C6_ColumnsInFetchOrderRowsAscending ==
    pc = "plot" =>
       /\ Len(frames) = Len(series)
       /\ \A k \in DOMAIN frames :
             /\ Range(frames[k].index) =
                   {series[k].points[j].interval.end_time : j \in DOMAIN series[k].points}
             /\ \A a, b \in DOMAIN frames[k].index :
                   a < b => frames[k].index[a] <= frames[k].index[b]

\* C7: a run whose directory creation, project lookup and query succeeded ends
\* in success: it does not abort, and when it is done it has drawn one line
\* per series and written the chart file.
C7_SucceedsAfterFetch ==
    /\ (pc = "aborted" /\ results # None) => ~results.ok
    /\ pc = "done" => Len(lines) = Len(series) /\ chart_path \in written

\* C8: a query is issued only with the output directory in place and the
\* project identifier read; a run whose directory cannot be created or whose
\* project identifier is missing issues no query and writes no file.
C8_NoQueryBeforeSetup ==
    /\ queries # <<>> => fs = "dir" /\ ProjectSet /\ project # None
    /\ (fs = "file" \/ ~ProjectSet) =>
          /\ queries = <<>>
          /\ written = {}
          /\ pc \in {"makedirs", "client", "aborted"}
    /\ (Failed("FileExistsError") \/ Failed("KeyError: GOOGLE_CLOUD_PROJECT")) =>
          pc = "aborted" /\ queries = <<>> /\ written = {}

C8_Witness ==
    /\ pc = "aborted"
    /\ Failed("KeyError: GOOGLE_CLOUD_PROJECT")
    /\ fs = "dir"
    /\ queries = <<>>

\* C9: the interval of the query carries args.start and args.end when they are
\* given; when they are not, its end is the current time and its start is 3600
\* seconds earlier.
C9_IntervalHonorsArgs ==
    interval # None =>
       /\ interval.start_time.seconds < interval.end_time.seconds
       /\ args.start # None => interval.start_time.seconds = args.start[1]
       /\ args.end # None => interval.end_time.seconds = args.end[1]
       /\ args.end = None => interval.end_time.seconds = now[1]
       /\ args.start = None =>
             interval.start_time.seconds = interval.end_time.seconds - 3600

\* C10: when the backend fails the query, the run is aborted with the
\* backend's own error after exactly one query: nothing is reshaped, nothing
\* is drawn and no file is written.
C10_BackendFailureAborts ==
    (results # None /\ ~results.ok) =>
       /\ pc = "aborted"
       /\ error = Some(results.error)
       /\ Len(queries) = 1
       /\ series = <<>>
       /\ df = None
       /\ frames = <<>>
       /\ lines = <<>>
       /\ written = {}

C10_Witness ==
    /\ pc = "aborted"
    /\ results = [ok |-> FALSE, error |-> "PermissionDenied"]
    /\ error = Some("PermissionDenied")
    /\ Len(queries) = 1
====
